---- MODULE Spec2Model ----
(***************************************************************************)
(* Model of drain_node_lambda.py: one invocation of lambda_handler, which  *)
(* resolves the node, writes and loads a kubeconfig, cordons the node,     *)
(* evicts the evictable pods, polls until the node is empty or a deadline  *)
(* passes, and completes the autoscaling lifecycle action.                 *)
(*                                                                         *)
(* The program is sequential; pc is the position of lambda_handler.  The   *)
(* environment (EC2, EKS, the Kubernetes API server, the autoscaling API,  *)
(* the scheduler that moves pods on and off the node) is nondeterministic: *)
(* every external call may succeed or fail with the API's error class,     *)
(* and the set of pods on the node may change whenever time passes.        *)
(***************************************************************************)
EXTENDS Integers, Sequences, FiniteSets, TLC

(* ------------------------------------------------------------------ *)
(* Program constants                                                    *)
(* ------------------------------------------------------------------ *)

\* endtime = time.time() + 60 * 3
Deadline == 180

\* time.sleep(5) in the polling loop
PollInterval == 5

\* time.sleep(30) after the loop when pods remain
GraceWait == 30

\* delete_options.grace_period_seconds = 750
GracePeriod == 750

\* "Max Lambda time is 15 minutes", in seconds
MaxLambdaTime == 900

(* ------------------------------------------------------------------ *)
(* Bounds of the model                                                  *)
(* ------------------------------------------------------------------ *)

\* How many polls of one invocation may be slow.
MaxSlowCalls == 1

\* Seconds the list call of a slow poll takes (every other call is taken as
\* instantaneous).
SlowCallSeconds == 6

(* ------------------------------------------------------------------ *)
(* The cluster the invocation talks to                                  *)
(* ------------------------------------------------------------------ *)

\* The pods that may be scheduled on the node, in the order the API server
\* lists them, and the kinds of their owner references (in order).
AllPods == <<"web", "proxy", "db", "bare", "job">>

Pods == {AllPods[i] : i \in 1..Len(AllPods)}

OwnerKinds(pod) ==
    CASE pod = "web"   -> <<"ReplicaSet">>
      [] pod = "db"    -> <<"StatefulSet", "DaemonSet">>
      [] pod = "proxy" -> <<"DaemonSet", "ReplicaSet">>
      [] pod = "job"   -> <<"Job">>
      [] OTHER         -> <<>>

\* pod.metadata.owner_references[0] can be evaluated: the pod has an owner
\* reference.  For a pod without one the subscript raises.
HasFirstOwner(pod) == Len(OwnerKinds(pod)) > 0

\* pod_list.items for the pods that are on the node: the API's listing order.
Listing(onNode) == SelectSeq(AllPods, LAMBDA p : p \in onNode)

\* The event's cluster name (detail.NotificationMetadata), the node the
\* instance resolves to, and what an earlier invocation of the same
\* container may have left in /tmp/kubeconfig.
ClusterName == "prod"
NodeName    == "ip-10-0-1-5.ec2.internal"
NoFile      == "absent"
StaleFiles  == {NoFile, "other"}

(* ------------------------------------------------------------------ *)
(* State                                                                *)
(* ------------------------------------------------------------------ *)

VARIABLES
    pc,             \* position of lambda_handler
    raised,         \* what ended the invocation: "none" while running or after
                    \* a normal return, else the exception that left the handler
    node_name,      \* node_name of lambda_handler ("" before get_hostname)
    kubeconfig,     \* content of /tmp/kubeconfig: the cluster it was written for
    loaded,         \* what config.load_kube_config loaded (NoFile: nothing)
    onNode,         \* the pods scheduled on the node right now
    unschedulable,  \* spec.unschedulable of the node
    pods,           \* pods of lambda_handler: the initial planning result
    idx,            \* position of the for loop over pods (1-based)
    remaining_pods, \* remaining_pods of lambda_handler
    reported,       \* the pods printed as "did not drain successfully"
    now,            \* time.time(), in seconds since the invocation began
    endtime,        \* endtime of lambda_handler (0 before it is set)
    slow,           \* list calls that were slow so far
    calls,          \* how often each external call or sleep was made
    evictions,      \* eviction requests issued, per pod
    evictFailed,    \* pods whose eviction request failed with ApiException
    lifecycle       \* the complete_lifecycle_action call: the result it
                    \* carried and how the call ended (NoSignal: not made)

vars == <<lifecycle, pc, raised, node_name, kubeconfig, loaded, onNode, unschedulable,
          pods, idx, remaining_pods, reported, now, endtime, slow, calls,
          evictions, evictFailed>>

CallNames == {"describe_instances", "describe_cluster", "load_kube_config",
              "patch_node", "list_pod", "create_eviction", "sleep",
              "grace_sleep", "complete_lifecycle_action"}

\* No complete_lifecycle_action call was made.
NoSignal == [result |-> "none", outcome |-> "none"]

\* One more call of kind c.
Bump(c) == [calls EXCEPT ![c] = @ + 1]

\* Seconds the list call of a poll may take.
Latencies == IF slow < MaxSlowCalls THEN {0, SlowCallSeconds} ELSE {0}

SlowAfter(d) == IF d > 0 THEN slow + 1 ELSE slow

\* The scheduler and the kubelet act while the program is busy elsewhere:
\* any pod may have come or gone by the time the program looks at the node
\* again.  onNode is the node as it is at the program's latest look.  The
\* pods of rescheduling controllers come and go; a daemon pod stays on its
\* node until the node is gone, and a pod without owner references has no
\* controller that would place it on the node or take it away.
MovingPods == {"web", "db", "job"}

NextNodes ==
    {S \in SUBSET Pods : \A p \in Pods \ MovingPods : p \in S <=> p \in onNode}

NodeMoves == onNode' \in NextNodes

Init ==
    /\ pc = "get_hostname"
    /\ raised = "none"
    /\ node_name = ""
    /\ kubeconfig \in StaleFiles
    /\ loaded = NoFile
    /\ onNode \in SUBSET Pods
    /\ unschedulable = FALSE
    /\ pods = <<>>
    /\ idx = 0
    /\ remaining_pods = <<>>
    /\ reported = <<>>
    /\ now = 0
    /\ endtime = 0
    /\ slow = 0
    /\ calls = [c \in CallNames |-> 0]
    /\ evictions = [p \in Pods |-> 0]
    /\ evictFailed = {}
    /\ lifecycle = NoSignal

(* ------------------------------------------------------------------ *)
(* get_evictable_pods                                                   *)
(* ------------------------------------------------------------------ *)

\* Variant: the kind of the owner is not looked at.
IsEvictable_NoFilter(pod) == TRUE

\* pod.metadata.owner_references[0].kind != 'DaemonSet'
IsEvictable(pod) == Head(OwnerKinds(pod)) # "DaemonSet"

\* The for loop of get_evictable_pods over pod_list.items: it raises at the
\* first pod whose owner_references cannot be subscripted, and otherwise
\* returns the pods it appended.
GetEvictablePods(items) ==
    IF \E i \in 1..Len(items) : ~HasFirstOwner(items[i])
    THEN [raises |-> TRUE, value |-> <<>>]
    ELSE [raises |-> FALSE, value |-> SelectSeq(items, IsEvictable)]

\* The invocation ends with exception e leaving lambda_handler.
Raise(e) ==
    /\ pc' = "end"
    /\ raised' = e

(* ------------------------------------------------------------------ *)
(* lambda_handler, step by step                                         *)
(* ------------------------------------------------------------------ *)

\* Variant: the except branch prints and does not exit.
GetHostname_NoExit ==
    /\ pc = "get_hostname"
    /\ calls' = Bump("describe_instances")
    /\ \E r \in {"ok", "ClientError", "NoReservation"} :
         \/ /\ r = "ok"
            /\ node_name' = NodeName
            /\ pc' = "generate_kube_config"
            /\ raised' = raised
         \/ /\ r = "ClientError"
            /\ node_name' = node_name
            /\ pc' = "generate_kube_config"
            /\ raised' = raised
         \/ /\ r = "NoReservation"
            /\ Raise("IndexError")
            /\ node_name' = node_name
    /\ UNCHANGED <<lifecycle, kubeconfig, loaded, onNode, unschedulable, pods, idx,
                   remaining_pods, reported, now, endtime, slow, evictions,
                   evictFailed>>

\* node_name = get_hostname(event): describe_instances returns the private
\* DNS name, or raises ClientError (caught: sys.exit(1)), or returns no
\* reservation (the subscript raises IndexError, not caught).
GetHostname ==
    /\ pc = "get_hostname"
    /\ calls' = Bump("describe_instances")
    /\ \E r \in {"ok", "ClientError", "NoReservation"} :
         \/ /\ r = "ok"
            /\ node_name' = NodeName
            /\ pc' = "generate_kube_config"
            /\ raised' = raised
         \/ /\ r = "ClientError"
            /\ Raise("SystemExit")
            /\ node_name' = node_name
         \/ /\ r = "NoReservation"
            /\ Raise("IndexError")
            /\ node_name' = node_name
    /\ UNCHANGED <<lifecycle, kubeconfig, loaded, onNode, unschedulable, pods, idx,
                   remaining_pods, reported, now, endtime, slow, evictions,
                   evictFailed>>

\* Variant: a failed describe_cluster is swallowed and the handler goes on
\* with whatever /tmp/kubeconfig holds.
GenerateKubeConfig_Fallback ==
    /\ pc = "generate_kube_config"
    /\ calls' = Bump("describe_cluster")
    /\ \E r \in {"ok", "ClientError"} :
         \/ /\ r = "ok"
            /\ kubeconfig' = ClusterName
         \/ /\ r = "ClientError"
            /\ kubeconfig' = kubeconfig
    /\ pc' = "load_kube_config"
    /\ UNCHANGED <<lifecycle, raised, node_name, loaded, onNode, unschedulable,
                   pods, idx, remaining_pods, reported, now, endtime, slow,
                   evictions, evictFailed>>

\* generate_kube_config(region, cluster_name): describe_cluster is not
\* guarded, so its ClientError leaves the handler; otherwise the file is
\* (over)written for cluster_name.
GenerateKubeConfig ==
    /\ pc = "generate_kube_config"
    /\ calls' = Bump("describe_cluster")
    /\ \E r \in {"ok", "ClientError"} :
         \/ /\ r = "ok"
            /\ kubeconfig' = ClusterName
            /\ pc' = "load_kube_config"
            /\ raised' = raised
         \/ /\ r = "ClientError"
            /\ Raise("ClientError")
            /\ kubeconfig' = kubeconfig
    /\ UNCHANGED <<lifecycle, node_name, loaded, onNode, unschedulable, pods, idx,
                   remaining_pods, reported, now, endtime, slow, evictions,
                   evictFailed>>

\* config.load_kube_config("/tmp/kubeconfig"); api_instance = CoreV1Api()
LoadKubeConfig ==
    /\ pc = "load_kube_config"
    /\ calls' = Bump("load_kube_config")
    /\ loaded' = kubeconfig
    /\ pc' = "cordon_node"
    /\ UNCHANGED <<lifecycle, raised, node_name, kubeconfig, onNode, unschedulable, pods,
                   idx, remaining_pods, reported, now, endtime, slow,
                   evictions, evictFailed>>

\* Variant: cordon_node without its try/except, so ApiException leaves the
\* handler.
CordonNode_Unguarded ==
    /\ pc = "cordon_node"
    /\ calls' = Bump("patch_node")
    /\ \E r \in {"ok", "ApiException"} :
         \/ /\ r = "ok"
            /\ unschedulable' = TRUE
            /\ pc' = "get_evictable_pods"
            /\ raised' = raised
         \/ /\ r = "ApiException"
            /\ unschedulable' = unschedulable
            /\ Raise("ApiException")
    /\ UNCHANGED <<lifecycle, node_name, kubeconfig, loaded, onNode, pods, idx,
                   remaining_pods, reported, now, endtime, slow, evictions,
                   evictFailed>>

\* cordon_node(api_instance, node_name): one patch_node; ApiException is
\* printed and swallowed.
CordonNode ==
    /\ pc = "cordon_node"
    /\ calls' = Bump("patch_node")
    /\ \E r \in {"ok", "ApiException"} :
         unschedulable' = IF r = "ok" THEN TRUE ELSE unschedulable
    /\ pc' = "get_evictable_pods"
    /\ UNCHANGED <<lifecycle, raised, node_name, kubeconfig, loaded, onNode, pods, idx,
                   remaining_pods, reported, now, endtime, slow, evictions,
                   evictFailed>>

\* pods = get_evictable_pods(api_instance, node_name): the list call is not
\* guarded (ApiException leaves the handler), nor is the owner_references
\* subscript (TypeError leaves the handler).
InitialPlanning ==
    /\ pc = "get_evictable_pods"
    /\ calls' = Bump("list_pod")
    /\ LET got == GetEvictablePods(Listing(onNode)) IN
         \/ /\ Raise("ApiException")
            /\ UNCHANGED <<pods, idx>>
         \/ /\ got.raises
            /\ Raise("TypeError")
            /\ UNCHANGED <<pods, idx>>
         \/ /\ ~got.raises
            /\ pods' = got.value
            /\ idx' = 1
            /\ pc' = "evict_pod"
            /\ raised' = raised
    /\ UNCHANGED <<lifecycle, node_name, kubeconfig, loaded, onNode, unschedulable,
                   remaining_pods, reported, now, endtime, slow, evictions,
                   evictFailed>>

\* Variant: evict_pod without its try/except, so ApiException leaves the
\* handler.
EvictPod_Unguarded ==
    /\ pc = "evict_pod"
    /\ idx <= Len(pods)
    /\ calls' = Bump("create_eviction")
    /\ evictions' = [evictions EXCEPT ![pods[idx]] = @ + 1]
    /\ \E r \in {"ok", "ApiException"} :
         \/ /\ r = "ok"
            /\ UNCHANGED <<pc, raised, evictFailed>>
            /\ idx' = idx + 1
         \/ /\ r = "ApiException"
            /\ evictFailed' = evictFailed \cup {pods[idx]}
            /\ Raise("ApiException")
            /\ idx' = idx
    /\ UNCHANGED <<lifecycle, node_name, kubeconfig, loaded, onNode, unschedulable, pods,
                   remaining_pods, reported, now, endtime, slow>>

\* One iteration of "for pod in pods: evict_pod(...)": one eviction request
\* for pods[idx]; ApiException is printed and swallowed.
EvictPod ==
    /\ pc = "evict_pod"
    /\ idx <= Len(pods)
    /\ calls' = Bump("create_eviction")
    /\ evictions' = [evictions EXCEPT ![pods[idx]] = @ + 1]
    /\ \E r \in {"ok", "ApiException"} :
         evictFailed' = IF r = "ok" THEN evictFailed
                        ELSE evictFailed \cup {pods[idx]}
    /\ idx' = idx + 1
    /\ UNCHANGED <<lifecycle, pc, raised, node_name, kubeconfig, loaded, onNode,
                   unschedulable, pods, remaining_pods, reported, now,
                   endtime, slow>>

\* Variant: the loop waits the 12 minutes of the comments.
EndTime_TwelveMinutes(t) == t + 720

\* endtime = time.time() + 60 * 3
EndTime(t) == t + Deadline

\* Variant: with nothing to evict the while loop is skipped.
StartConverging_SkipWhenEmpty ==
    /\ pc = "evict_pod"
    /\ idx > Len(pods)
    /\ remaining_pods' = <<>>
    /\ endtime' = EndTime(now)
    /\ pc' = IF pods = <<>> THEN "after_loop" ELSE "while"
    /\ UNCHANGED <<lifecycle, raised, node_name, kubeconfig, loaded, onNode,
                   unschedulable, pods, idx, reported, now, slow, calls,
                   evictions, evictFailed>>

\* The for loop is over: remaining_pods = []; endtime = time.time() + 60 * 3
StartConverging ==
    /\ pc = "evict_pod"
    /\ idx > Len(pods)
    /\ remaining_pods' = <<>>
    /\ endtime' = EndTime(now)
    /\ pc' = "while"
    /\ UNCHANGED <<lifecycle, raised, node_name, kubeconfig, loaded, onNode,
                   unschedulable, pods, idx, reported, now, slow, calls,
                   evictions, evictFailed>>

\* Variant: the deadline itself still counts as before the deadline.
LoopCondition_Inclusive(t, e) == t <= e

\* while time.time() < endtime
LoopCondition(t, e) == t < e

\* Variant: a poll keeps only the pods of the initial planning result.
Poll_InitialSnapshotOnly ==
    /\ pc = "while"
    /\ LoopCondition(now, endtime)
    /\ calls' = Bump("list_pod")
    /\ \E d \in Latencies :
         /\ now' = now + d
         /\ slow' = SlowAfter(d)
         /\ \/ /\ Raise("ApiException")
               /\ UNCHANGED <<remaining_pods, onNode>>
            \/ \E seen \in NextNodes :
                 LET got  == GetEvictablePods(Listing(seen))
                     kept == SelectSeq(got.value,
                                       LAMBDA p : \E i \in 1..Len(pods) :
                                                     pods[i] = p)
                 IN
                 /\ onNode' = seen
                 /\ \/ /\ got.raises
                       /\ Raise("TypeError")
                       /\ UNCHANGED remaining_pods
                    \/ /\ ~got.raises
                       /\ remaining_pods' = kept
                       /\ pc' = IF kept = <<>> THEN "after_loop" ELSE "sleep"
                       /\ raised' = raised
    /\ UNCHANGED <<lifecycle, node_name, kubeconfig, loaded, unschedulable,
                   pods, idx, reported, endtime, evictions, evictFailed>>

\* One iteration of the while loop up to the sleep: the loop condition
\* holds, remaining_pods = get_evictable_pods(...) lists the node as it is
\* by now, and "if not remaining_pods: break".  The list call and the
\* owner_references subscript are not guarded here either.
Poll ==
    /\ pc = "while"
    /\ LoopCondition(now, endtime)
    /\ calls' = Bump("list_pod")
    /\ \E d \in Latencies :
         /\ now' = now + d
         /\ slow' = SlowAfter(d)
         /\ \/ /\ Raise("ApiException")
               /\ UNCHANGED <<remaining_pods, onNode>>
            \/ \E seen \in NextNodes :
                 LET got == GetEvictablePods(Listing(seen)) IN
                 /\ onNode' = seen
                 /\ \/ /\ got.raises
                       /\ Raise("TypeError")
                       /\ UNCHANGED remaining_pods
                    \/ /\ ~got.raises
                       /\ remaining_pods' = got.value
                       /\ pc' = IF got.value = <<>> THEN "after_loop"
                                                    ELSE "sleep"
                       /\ raised' = raised
    /\ UNCHANGED <<lifecycle, node_name, kubeconfig, loaded, unschedulable, pods, idx,
                   reported, endtime, evictions, evictFailed>>

\* print("Waiting for ..."); time.sleep(5)
PollSleep ==
    /\ pc = "sleep"
    /\ calls' = Bump("sleep")
    /\ now' = now + PollInterval
    /\ pc' = "while"
    /\ UNCHANGED <<lifecycle, raised, node_name, kubeconfig, loaded, onNode,
                   unschedulable, pods, idx, remaining_pods, reported,
                   endtime, slow, evictions, evictFailed>>

\* The loop condition fails: the while loop ends without a break.  onNode
\* becomes the node as it is at that moment, which the program does not read.
LoopDeadline ==
    /\ pc = "while"
    /\ ~LoopCondition(now, endtime)
    /\ pc' = "after_loop"
    /\ NodeMoves
    /\ UNCHANGED <<lifecycle, raised, node_name, kubeconfig, loaded, unschedulable, pods,
                   idx, remaining_pods, reported, now, endtime, slow, calls,
                   evictions, evictFailed>>

\* Variant: the pods that did not drain are sent a second eviction request
\* before the grace wait.
ReportStragglers_Retry ==
    /\ pc = "after_loop"
    /\ remaining_pods # <<>>
    /\ reported' = remaining_pods
    /\ evictions' = [p \in Pods |->
                       IF p \in {remaining_pods[i] : i \in 1..Len(remaining_pods)}
                       THEN evictions[p] + 1 ELSE evictions[p]]
    /\ calls' = [calls EXCEPT !["grace_sleep"] = @ + 1,
                              !["create_eviction"] = @ + Len(remaining_pods)]
    /\ now' = now + GraceWait
    /\ pc' = "continue_lifecycle"
    /\ UNCHANGED <<lifecycle, raised, node_name, kubeconfig, loaded, onNode,
                   unschedulable, pods, idx, remaining_pods, endtime, slow,
                   evictFailed>>

\* Variant: the pods of the initial planning result are printed instead of
\* the pods of the last poll.
ReportStragglers_InitialPods ==
    /\ pc = "after_loop"
    /\ remaining_pods # <<>>
    /\ reported' = pods
    /\ calls' = Bump("grace_sleep")
    /\ now' = now + GraceWait
    /\ pc' = "continue_lifecycle"
    /\ UNCHANGED <<lifecycle, raised, node_name, kubeconfig, loaded, onNode,
                   unschedulable, pods, idx, remaining_pods, endtime, slow,
                   evictions, evictFailed>>

\* Variant: the pods are printed and the grace wait is left out.
ReportStragglers_NoGrace ==
    /\ pc = "after_loop"
    /\ remaining_pods # <<>>
    /\ reported' = remaining_pods
    /\ pc' = "continue_lifecycle"
    /\ UNCHANGED <<lifecycle, raised, node_name, kubeconfig, loaded, onNode,
                   unschedulable, pods, idx, remaining_pods, endtime, slow,
                   evictions, evictFailed, calls, now>>

\* "if remaining_pods:" taken: the pods are printed, then time.sleep(30)
ReportStragglers ==
    /\ pc = "after_loop"
    /\ remaining_pods # <<>>
    /\ reported' = remaining_pods
    /\ calls' = Bump("grace_sleep")
    /\ now' = now + GraceWait
    /\ pc' = "continue_lifecycle"
    /\ UNCHANGED <<lifecycle, raised, node_name, kubeconfig, loaded, onNode,
                   unschedulable, pods, idx, remaining_pods, endtime, slow,
                   evictions, evictFailed>>

\* Variant: the grace wait is outside the if.
NoStragglers_AlwaysWaits ==
    /\ pc = "after_loop"
    /\ remaining_pods = <<>>
    /\ calls' = Bump("grace_sleep")
    /\ now' = now + GraceWait
    /\ pc' = "continue_lifecycle"
    /\ UNCHANGED <<lifecycle, raised, node_name, kubeconfig, loaded, onNode,
                   unschedulable, pods, idx, remaining_pods, reported,
                   endtime, slow, evictions, evictFailed>>

\* "if remaining_pods:" not taken
NoStragglers ==
    /\ pc = "after_loop"
    /\ remaining_pods = <<>>
    /\ pc' = "continue_lifecycle"
    /\ UNCHANGED <<lifecycle, raised, node_name, kubeconfig, loaded, onNode,
                   unschedulable, pods, idx, remaining_pods, reported, now,
                   endtime, slow, calls, evictions, evictFailed>>

\* LifecycleActionResult='CONTINUE'
LifecycleActionResult == "CONTINUE"

\* Variant: the hook is told to abandon when pods did not drain.
ContinueLifecycle_AbandonOnStragglers ==
    /\ pc = "continue_lifecycle"
    /\ calls' = Bump("complete_lifecycle_action")
    /\ \E r \in {"ok", "ClientError"} :
         lifecycle' = [result |-> IF remaining_pods = <<>>
                                  THEN LifecycleActionResult ELSE "ABANDON",
                       outcome |-> r]
    /\ pc' = "end"
    /\ UNCHANGED <<raised, node_name, kubeconfig, loaded, onNode,
                   unschedulable, pods, idx, remaining_pods, reported, now,
                   endtime, slow, evictions, evictFailed>>

\* continue_lifecycle(...): one complete_lifecycle_action with result
\* CONTINUE; ClientError is printed and swallowed.  lambda_handler returns.
ContinueLifecycle ==
    /\ pc = "continue_lifecycle"
    /\ calls' = Bump("complete_lifecycle_action")
    /\ \E r \in {"ok", "ClientError"} :
         lifecycle' = [result |-> LifecycleActionResult, outcome |-> r]
    /\ pc' = "end"
    /\ UNCHANGED <<raised, node_name, kubeconfig, loaded, onNode,
                   unschedulable, pods, idx, remaining_pods, reported, now,
                   endtime, slow, evictions, evictFailed>>

Next ==
    \/ GetHostname
    \/ GenerateKubeConfig
    \/ LoadKubeConfig
    \/ CordonNode
    \/ InitialPlanning
    \/ EvictPod
    \/ StartConverging
    \/ Poll
    \/ PollSleep
    \/ LoopDeadline
    \/ ReportStragglers
    \/ NoStragglers
    \/ ContinueLifecycle

Spec == Init /\ [][Next]_vars

\* The handler's steps are taken one after the other until it returns or an
\* exception leaves it: no step that can be taken is put off forever.
FairSpec == Spec /\ WF_vars(Next)

\* Another invocation of the handler, for another cluster, writes its
\* configuration to the same path, config_file = "/tmp/kubeconfig", between
\* this invocation's steps.  Only a write before this invocation's
\* load_kube_config is modelled: the file is not read after that.
OtherInvocationWrites ==
    /\ pc \in {"get_hostname", "generate_kube_config", "load_kube_config"}
    /\ kubeconfig # "other"
    /\ kubeconfig' = "other"
    /\ UNCHANGED <<lifecycle, pc, raised, node_name, loaded, onNode,
                   unschedulable, pods, idx, remaining_pods, reported, now,
                   endtime, slow, calls, evictions, evictFailed>>

SharedTmpNext ==
    \/ Next
    \/ OtherInvocationWrites

\* The handler with a second invocation sharing /tmp.
SharedTmpSpec == Init /\ [][SharedTmpNext]_vars

(* ------------------------------------------------------------------ *)
(* Vocabulary of the properties                                         *)
(* ------------------------------------------------------------------ *)

\* The invocation is over (returned, exited or raised).
Finished == pc = "end"

\* Node resolution and cluster-config provisioning both succeeded.
PastProvisioning == pc = "load_kube_config" \/ calls["load_kube_config"] > 0

\* The for loop over pods has run to its end.
SweepDone == idx > Len(pods)

\* The invocation has entered Converging (endtime is set).
EnteredConverging == endtime > 0

\* listEvictable calls made by the convergence loop.
Polls == IF calls["list_pod"] = 0 THEN 0 ELSE calls["list_pod"] - 1

\* The while loop is behind the program and the handler has not raised.
PastLoop ==
    \/ pc \in {"after_loop", "continue_lifecycle"}
    \/ pc = "end" /\ calls["complete_lifecycle_action"] > 0

\* The pods of a sequence.
Range(seq) == {seq[i] : i \in 1..Len(seq)}

\* The first owner reference of the pod is a DaemonSet.
DaemonOwned(pod) == HasFirstOwner(pod) /\ OwnerKinds(pod)[1] = "DaemonSet"

\* What the planner is specified to return for a listing: every pod that is
\* not daemon-owned, pods without owner references included, in order.
ExpectedEvictable(items) == SelectSeq(items, LAMBDA p : ~DaemonOwned(p))

\* ceil(deadline / interval)
MaxPolls == (Deadline + PollInterval - 1) \div PollInterval

(* ------------------------------------------------------------------ *)
(* C1                                                                   *)
(* ------------------------------------------------------------------ *)

\* C1: an invocation that got past node resolution and cluster-config
\* provisioning calls complete-lifecycle-action exactly once: never twice,
\* and once it is over, not zero times, whatever the cluster does.
C1_SignalExactlyOnce ==
    /\ calls["complete_lifecycle_action"] <= 1
    /\ (Finished /\ PastProvisioning) => calls["complete_lifecycle_action"] = 1

(* ------------------------------------------------------------------ *)
(* C2                                                                   *)
(* ------------------------------------------------------------------ *)

\* C2: over a whole invocation every pod of the initial planning result
\* gets exactly one eviction request and no other pod gets any: none for a
\* daemon-owned pod, none twice, however often a pod shows up in later polls.
C2_EvictOncePerInitialPod ==
    /\ \A p \in Pods : evictions[p] <= 1
    /\ \A p \in Pods : evictions[p] > 0 => p \in Range(pods) /\ ~DaemonOwned(p)
    /\ SweepDone =>
         /\ \A p \in Range(pods) : evictions[p] = 1
         /\ calls["create_eviction"] = Len(pods)

\* Three evictable pods and a daemon pod were on the node; the invocation
\* returned after polls in which an evicted pod was still listed.
C2_Witness ==
    /\ Finished /\ raised = "none"
    /\ pods = <<"web", "db", "job">>
    /\ "proxy" \in onNode
    /\ calls["create_eviction"] = 3
    /\ Polls >= 2
    /\ "db" \in Range(reported)

(* ------------------------------------------------------------------ *)
(* C3                                                                   *)
(* ------------------------------------------------------------------ *)

\* C3: when the eviction request of a pod fails, the sweep is not aborted:
\* the pods before it keep their request, the pods after it get theirs, and
\* the invocation enters Converging.
C3_FailureIsolation ==
    evictFailed # {} =>
        /\ pc = "evict_pod" \/ EnteredConverging
        /\ \A i \in 1..Len(pods) : i < idx => evictions[pods[i]] = 1
        /\ pc # "evict_pod" => \A p \in Range(pods) : evictions[p] = 1

\* The eviction of the middle pod failed and the pods before and after it
\* were sent their request; the loop is polling.
C3_Witness ==
    /\ pods = <<"web", "db", "job">>
    /\ evictFailed = {"db"}
    /\ evictions["web"] = 1 /\ evictions["job"] = 1
    /\ pc = "sleep"

(* ------------------------------------------------------------------ *)
(* C4                                                                   *)
(* ------------------------------------------------------------------ *)

\* C4: past node resolution and provisioning, the failure of an external
\* call (patch-node, list-pods, create-pod-eviction, complete-lifecycle-
\* action) never leaves the handler as an exception, and the invocation
\* ends only after the lifecycle signal.
C4_OnlyFatalFailuresHalt ==
    PastProvisioning =>
        /\ raised \notin {"ApiException", "ClientError"}
        /\ (Finished /\ raised \in {"none", "ApiException", "ClientError"})
              => calls["complete_lifecycle_action"] > 0

(* ------------------------------------------------------------------ *)
(* C5                                                                   *)
(* ------------------------------------------------------------------ *)

\* C5: get_evictable_pods returns, in listing order, exactly the listed
\* pods whose first owner reference is not a DaemonSet; a pod without owner
\* references is kept and does not make the call fail.
C5_ListEvictableFilter ==
    /\ raised # "TypeError"
    /\ pc = "evict_pod" => pods = ExpectedEvictable(Listing(onNode))
    /\ pc = "sleep" => remaining_pods = ExpectedEvictable(Listing(onNode))

(* ------------------------------------------------------------------ *)
(* C6                                                                   *)
(* ------------------------------------------------------------------ *)

\* describe_instances was called and gave no node name.
ResolutionFailed == calls["describe_instances"] > 0 /\ node_name = ""

\* C6: when node-name resolution fails the invocation is over at once and
\* has made no cluster call: no describe-cluster, no config load, no
\* patch-node, no list-pods, no eviction request, no sleep and no lifecycle
\* signal.
C6_ResolutionFailureAborts ==
    ResolutionFailed =>
        /\ Finished
        /\ raised \in {"SystemExit", "IndexError"}
        /\ \A c \in CallNames \ {"describe_instances"} : calls[c] = 0
        /\ ~unschedulable
        /\ loaded = NoFile
        /\ \A p \in Pods : evictions[p] = 0

\* describe_instances raised ClientError and the handler exited.
C6_Witness ==
    /\ Finished
    /\ raised = "SystemExit"
    /\ calls["describe_instances"] = 1
    /\ node_name = ""

(* ------------------------------------------------------------------ *)
(* C7                                                                   *)
(* ------------------------------------------------------------------ *)

\* This step is a poll of the convergence loop.
PollStep == pc = "while" /\ calls'["list_pod"] > calls["list_pod"]

PlannedNothing == idx >= 1 /\ pods = <<>>

\* C8 as stated: when the initial planning call returns an empty list, no
\* further listEvictable call and no sleep follow it.
C8_NoPollAfterEmptyPlan ==
    PlannedNothing => calls["list_pod"] = 1 /\ calls["sleep"] = 0

\* The first poll of the loop has returned an empty list.
FirstPollEmpty ==
    /\ Polls = 1
    /\ remaining_pods = <<>>
    /\ pc \in {"after_loop", "continue_lifecycle"}

\* C8 amended: when the initial planning call returns an empty list the
\* loop still makes its first poll; when that poll returns an empty list,
\* no further listEvictable call and no sleep come before the lifecycle
\* signal.
C8_FirstPollEmptyEndsLoop ==
    /\ []((PlannedNothing /\ PastLoop) => Polls >= 1)
    /\ [][(PlannedNothing /\ FirstPollEmpty) =>
             /\ calls'["list_pod"] = calls["list_pod"]
             /\ calls'["sleep"] = 0
             /\ calls'["grace_sleep"] = 0
             /\ pc' \in {"continue_lifecycle", "end"}]_vars

\* Nothing was planned, the one poll found nothing, the signal was sent.
C8_Witness ==
    /\ PlannedNothing
    /\ Finished /\ raised = "none"
    /\ calls["list_pod"] = 2
    /\ calls["sleep"] = 0
    /\ calls["complete_lifecycle_action"] = 1

(* ------------------------------------------------------------------ *)
(* C9                                                                   *)
(* ------------------------------------------------------------------ *)

\* C9: patch-node comes before the initial list-pods, every eviction
\* request before the first poll, no patch-node or eviction request once
\* polling has started, no poll after the grace wait, the lifecycle signal
\* last and nothing after it.
C9_CallOrder ==
    /\ [](/\ calls["patch_node"] <= 1
          /\ calls["list_pod"] > 0 => calls["patch_node"] = 1
          /\ calls["create_eviction"] > 0 => calls["list_pod"] > 0
          /\ Polls > 0 => SweepDone /\ calls["create_eviction"] = Len(pods)
          /\ calls["sleep"] + calls["grace_sleep"] > 0 => Polls > 0
          /\ calls["complete_lifecycle_action"] > 0 => Finished)
    /\ [][/\ Polls > 0 =>
                /\ calls'["patch_node"] = calls["patch_node"]
                /\ calls'["create_eviction"] = calls["create_eviction"]
                /\ evictions' = evictions
          /\ calls["grace_sleep"] > 0 =>
                /\ calls'["list_pod"] = calls["list_pod"]
                /\ calls'["sleep"] = calls["sleep"]
          /\ calls["complete_lifecycle_action"] > 0 => calls' = calls
          /\ calls'["complete_lifecycle_action"] > calls["complete_lifecycle_action"]
                => calls' = Bump("complete_lifecycle_action")]_vars

\* A full run: cordon, three evictions, several polls, stragglers, the
\* grace wait and the signal.
C9_Witness ==
    /\ Finished /\ raised = "none"
    /\ unschedulable
    /\ calls["create_eviction"] = 3
    /\ Polls >= 3
    /\ calls["grace_sleep"] = 1
    /\ calls["complete_lifecycle_action"] = 1

(* ------------------------------------------------------------------ *)
(* C10                                                                  *)
(* ------------------------------------------------------------------ *)

\* This step is a poll that returns an empty list.
EmptyPollStep == PollStep /\ raised' = "none" /\ remaining_pods' = <<>>

\* C10: a poll that returns an empty list was started before the deadline
\* and ends the loop; then nothing is reported as not drained, there is no
\* further poll, no sleep and no grace wait, and the next call is the
\* lifecycle signal.
C10_EmptyPollEndsDrain ==
    /\ [][EmptyPollStep =>
             /\ now < endtime
             /\ pc' = "after_loop"
             /\ calls'["sleep"] = calls["sleep"]]_vars
    /\ [][(pc = "after_loop" /\ remaining_pods = <<>>) =>
             /\ pc' = "continue_lifecycle"
             /\ calls' = calls
             /\ now' = now]_vars
    /\ [][(pc = "continue_lifecycle" /\ remaining_pods = <<>>) =>
             calls' = Bump("complete_lifecycle_action")]_vars
    /\ []((PastLoop /\ remaining_pods = <<>>) =>
             reported = <<>> /\ calls["grace_sleep"] = 0)

\* Three pods were evicted without failure, a later poll found the node
\* empty, and the signal was sent without a grace wait.
C10_Witness ==
    /\ Finished /\ raised = "none"
    /\ pods = <<"web", "db", "job">>
    /\ evictFailed = {}
    /\ calls["sleep"] >= 1
    /\ remaining_pods = <<>>
    /\ reported = <<>>
    /\ calls["grace_sleep"] = 0
    /\ calls["complete_lifecycle_action"] = 1

(* ------------------------------------------------------------------ *)
(* C11                                                                  *)
(* ------------------------------------------------------------------ *)

\* The loop was left because the deadline passed: its last poll listed pods.
LeftAtDeadline == pc = "after_loop" /\ remaining_pods # <<>>

StragglersReported ==
    /\ reported # <<>>
    /\ pc = "continue_lifecycle" \/ (Finished /\ raised = "none")

EvictableOnNode == {p \in onNode : ~DaemonOwned(p)}

\* C12 as stated: every pod reported as a straggler is on the node, and
\* evictable, at the moment the deadline is reached; when the node has no
\* evictable pod at that moment, nothing is reported and there is no grace
\* wait.
C12_StragglersPresentAtDeadline ==
    (calls["grace_sleep"] > 0 \/ (PastLoop /\ pc # "after_loop")) =>
        /\ Range(reported) \subseteq EvictableOnNode
        /\ EvictableOnNode = {} => reported = <<>> /\ calls["grace_sleep"] = 0

\* C12 amended: every pod reported as a straggler was on the node, and
\* evictable, when the last poll of the loop listed it; that poll started
\* before the deadline, and the report and the grace wait follow its result
\* alone, also when the pods have left the node by the time the deadline is
\* reached.
C12_StragglersAreLastPollResult ==
    /\ [][(PollStep /\ raised' = "none") =>
            /\ now < endtime
            /\ Range(remaining_pods') = {p \in onNode' : ~DaemonOwned(p)}]_vars
    /\ [][(pc \in {"sleep", "while"} /\ ~PollStep) =>
            remaining_pods' = remaining_pods]_vars
    /\ [][pc = "after_loop" =>
            /\ remaining_pods # <<>> =>
                 reported' = remaining_pods /\ calls' = Bump("grace_sleep")
            /\ remaining_pods = <<>> => reported' = <<>> /\ calls' = calls]_vars

\* A pod of the last poll had left the node when the deadline was reached:
\* it was reported all the same, and the grace wait was made.
C12_Witness ==
    /\ Finished /\ raised = "none"
    /\ reported = <<"db">>
    /\ EvictableOnNode = {}
    /\ calls["grace_sleep"] = 1

(* ------------------------------------------------------------------ *)
(* C13                                                                  *)
(* ------------------------------------------------------------------ *)

\* The one patch-node call was made and failed.
CordonFailed == calls["patch_node"] > 0 /\ ~unschedulable

\* C13: there is one patch-node call per invocation, never a second one;
\* when it fails the handler goes on to the initial planning call as after
\* a success: the failure does not leave the handler, and what the handler
\* does next never depends on how the cordon ended.
C13_CordonOnceNotFatal ==
    /\ [](/\ calls["patch_node"] <= 1
          /\ calls["list_pod"] > 0 => calls["patch_node"] = 1
          /\ CordonFailed => (raised = "ApiException" => calls["list_pod"] > 0)
          /\ (CordonFailed /\ Finished /\ raised = "none") =>
                /\ SweepDone /\ calls["create_eviction"] = Len(pods)
                /\ Polls >= 1
                /\ calls["complete_lifecycle_action"] = 1)
    /\ [][pc = "cordon_node" =>
            /\ pc' = "get_evictable_pods"
            /\ raised' = "none"
            /\ calls' = Bump("patch_node")]_vars
    /\ [][calls["patch_node"] > 0 => unschedulable' = unschedulable]_vars

\* The cordon failed; the three pods were evicted, the loop polled to the
\* deadline and the signal was sent.
C13_Witness ==
    /\ CordonFailed
    /\ Finished /\ raised = "none"
    /\ calls["create_eviction"] = 3
    /\ Polls = MaxPolls
    /\ calls["sleep"] = MaxPolls
    /\ calls["complete_lifecycle_action"] = 1

(* ------------------------------------------------------------------ *)
(* C14                                                                  *)
(* ------------------------------------------------------------------ *)

\* C14: the lifecycle signal carries CONTINUE whether or not pods were
\* reported as not drained; there is at most one complete-lifecycle-action
\* call, and when it fails the handler returns without raising and without
\* a second call.
C14_AlwaysContinueNoRetry ==
    /\ calls["complete_lifecycle_action"] <= 1
    /\ calls["complete_lifecycle_action"] = 0 <=> lifecycle = NoSignal
    /\ lifecycle # NoSignal =>
         /\ lifecycle.result = "CONTINUE"
         /\ Finished /\ raised = "none"
         /\ calls["complete_lifecycle_action"] = 1

\* Pods were reported as not drained; the signal carried CONTINUE, the
\* call failed and the handler returned.
C14_Witness ==
    /\ Finished /\ raised = "none"
    /\ reported # <<>>
    /\ lifecycle = [result |-> "CONTINUE", outcome |-> "ClientError"]
    /\ calls["complete_lifecycle_action"] = 1

(* ------------------------------------------------------------------ *)
(* C15                                                                  *)
(* ------------------------------------------------------------------ *)

\* describe_cluster was called and no file was written for the cluster.
ProvisioningFailed ==
    calls["describe_cluster"] > 0 /\ kubeconfig # ClusterName

\* C15: when describe-cluster fails the invocation is over at once: the
\* cluster client loads no configuration file, and there is no patch-node,
\* list-pods, eviction request, wait or lifecycle signal in the invocation.
C15_ProvisioningFailureAborts ==
    ProvisioningFailed =>
        /\ Finished /\ raised = "ClientError"
        /\ loaded = NoFile
        /\ lifecycle = NoSignal
        /\ \A c \in CallNames \ {"describe_instances", "describe_cluster"} :
              calls[c] = 0
        /\ \A p \in Pods : evictions[p] = 0
        /\ ~unschedulable

\* describe_cluster failed while a file of an earlier invocation was still
\* at the path; it was not loaded.
C15_Witness ==
    /\ ProvisioningFailed
    /\ kubeconfig = "other"
    /\ Finished /\ raised = "ClientError"
    /\ loaded = NoFile
    /\ calls["describe_instances"] = 1

(* ------------------------------------------------------------------ *)
(* C16                                                                  *)
(* ------------------------------------------------------------------ *)

\* The evictable pods on the node that the initial planning result did not
\* hold.
LateArrivals(nodePods) ==
    {p \in nodePods : ~DaemonOwned(p) /\ p \notin Range(pods)}

\* C16: a poll that returns decides on its own listing alone: its result is
\* the evictable part of the node as it is then, and the loop is left before
\* the deadline exactly when that result is empty.  A pod that was not in
\* the initial planning result is never sent an eviction request, keeps the
\* loop going while a poll lists it, and is reported as not drained when the
\* last poll listed it.
C16_PollsDecideOnFreshListing ==
    /\ [][(PollStep /\ raised' = "none") =>
            /\ remaining_pods' = ExpectedEvictable(Listing(onNode'))
            /\ pc' = "after_loop" <=> remaining_pods' = <<>>
            /\ pc' = "sleep" <=> remaining_pods' # <<>>
            /\ LateArrivals(onNode') # {} =>
                 /\ pc' = "sleep"
                 /\ LateArrivals(onNode') \subseteq Range(remaining_pods')]_vars
    /\ [][(pc \in {"while", "sleep"} /\ pc' = "after_loop" /\ now' < endtime)
            => PollStep /\ remaining_pods' = <<>>]_vars
    /\ [](\A p \in Pods : evictions[p] > 0 => p \in Range(pods))
    /\ [](StragglersReported => reported = remaining_pods)

\* Only web was planned and evicted; job came to the node later, was listed
\* by the last poll and reported, and was never sent an eviction request.
C16_Witness ==
    /\ Finished /\ raised = "none"
    /\ pods = <<"web">>
    /\ calls["create_eviction"] = 1
    /\ "job" \in Range(reported)
    /\ evictions["job"] = 0

(* ------------------------------------------------------------------ *)
(* C17                                                                  *)
(* ------------------------------------------------------------------ *)

\* The time of the eviction requests: the sweep takes no time, so it is the
\* moment the deadline was set.
EvictedAt == endtime - Deadline

\* The lifecycle signal was sent with a reported pod that had been sent an
\* eviction request.
SignalWithEvictedStraggler ==
    /\ lifecycle # NoSignal
    /\ \E p \in Range(reported) : evictions[p] > 0

\* C17: when the deadline is reached with stragglers, the lifecycle signal
\* is not sent before the 750-second grace period of the evicted stragglers,
\* counted from their eviction request, has expired.
C17_SignalAfterGracePeriod ==
    SignalWithEvictedStraggler => now >= EvictedAt + GracePeriod

(* ------------------------------------------------------------------ *)
(* C18                                                                  *)
(* ------------------------------------------------------------------ *)

\* The seconds the handler has slept.
SleepTime ==
    PollInterval * calls["sleep"] + GraceWait * calls["grace_sleep"]

\* No list call has taken time.
CallsInstantaneous == slow = 0

C19_LoadsOwnConfig == loaded # NoFile => loaded = ClusterName

====
